---- MODULE Spec2Model ----
(***************************************************************************)
(* Model of the Amazon-CSV to Tally-XML converter (build_voucher,          *)
(* build_tcs_voucher, convert).                                            *)
(*                                                                         *)
(* A CSV row is a function from column names to cell texts, as the dict    *)
(* csv.DictReader yields.  Decimal amounts are integers counted in units   *)
(* of 0.005, so that halving an amount with two fractional digits is       *)
(* exact, as it is for Decimal.  A datetime is the tuple                    *)
(* <<year, month, day, hour, minute>>; None is the empty tuple.  A text    *)
(* the code builds or takes apart (a formatted amount) is the sequence of  *)
(* its characters.                                                         *)
(*                                                                         *)
(* header holds the column names of the input file; arg and res hold the   *)
(* argument and the result of the function under check in the              *)
(* specifications of the pure functions, and stay empty in convert.        *)
(***************************************************************************)
EXTENDS Integers, Sequences, FiniteSets, TLC

VARIABLES header, rows, pc, idx, reqdata, debug_rows, xml, logfile, arg, res

vars == <<header, rows, pc, idx, reqdata, debug_rows, xml, logfile, arg, res>>

(***************************************************************************)
(* Bounds of the model.                                                    *)
(***************************************************************************)
MaxRows == 2
MaxNonZero == 2

(***************************************************************************)
(* Text primitives, tabulated on the cell texts of the model.              *)
(***************************************************************************)
None == <<>>

\* str.strip()
strip(s) ==
    CASE s = " REFUND " -> "REFUND"
      [] s = "171-0000001 " -> "171-0000001"
      [] s = " karnataka " -> "karnataka"
      [] s = "   " -> ""
      [] s = " 0.01 " -> "0.01"
      [] OTHER -> s

\* str.lower()
lower(s) ==
    CASE s = "REFUND" -> "refund"
      [] s = "Refund" -> "refund"
      [] s = "Shipment" -> "shipment"
      [] s = "Cancel" -> "cancel"
      [] s = "FreeReplacement" -> "freereplacement"
      [] s = "KARNATAKA" -> "karnataka"
      [] s = "Karnataka" -> "karnataka"
      [] s = "DELHI" -> "delhi"
      [] OTHER -> s

\* str.split()[0] of a non-empty stripped text
FirstToken(s) ==
    CASE s = "05-01-2024 10:30" -> "05-01-2024"
      [] s = "07-01-2024 09:15" -> "07-01-2024"
      [] s = "06-01-2024 9am" -> "06-01-2024"
      [] OTHER -> s

\* The decimal literals among the cell texts, with their value in units of
\* 0.005; Decimal(text) raises InvalidOperation on every other text.
DecimalLiterals ==
    [s \in {"0", "0.00", "0.01", "-0.01", "0.02", "-0.02", "1000.00", "-1000.00"} |->
        CASE s = "0.01" -> 2
          [] s = "-0.01" -> -2
          [] s = "0.02" -> 4
          [] s = "-0.02" -> -4
          [] s = "1000.00" -> 200000
          [] s = "-1000.00" -> -200000
          [] OTHER -> 0]

\* The texts strptime accepts under "%d-%m-%Y %H:%M"
StrptimeFull ==
    [s \in {"05-01-2024 10:30", "07-01-2024 09:15"} |->
        IF s = "05-01-2024 10:30" THEN <<2024, 1, 5, 10, 30>> ELSE <<2024, 1, 7, 9, 15>>]

\* The texts strptime accepts under "%d-%m-%Y"
StrptimeDate ==
    [s \in {"05-01-2024", "06-01-2024", "07-01-2024"} |->
        CASE s = "05-01-2024" -> <<2024, 1, 5, 0, 0>>
          [] s = "06-01-2024" -> <<2024, 1, 6, 0, 0>>
          [] OTHER -> <<2024, 1, 7, 0, 0>>]

\* dt.datetime.today(), a value later than every date of the input
Today == <<2024, 2, 1, 12, 0>>

Abs(x) == IF x < 0 THEN -x ELSE x

d(val) ==
    IF strip(val) # ""
      THEN (IF strip(val) \in DOMAIN DecimalLiterals THEN DecimalLiterals[strip(val)] ELSE 0)
      ELSE 0

\* [raises |-> a ValueError propagates, val |-> the datetime or None]
parse_date(raw) ==
    LET s == strip(raw) IN
    IF s = "" THEN [raises |-> FALSE, val |-> None]
    ELSE IF s \in DOMAIN StrptimeFull THEN [raises |-> FALSE, val |-> StrptimeFull[s]]
    ELSE IF FirstToken(s) \in DOMAIN StrptimeDate
      THEN [raises |-> FALSE, val |-> StrptimeDate[FirstToken(s)]]
      ELSE [raises |-> TRUE, val |-> None]

Pad2(n) == IF n < 10 THEN "0" \o ToString(n) ELSE ToString(n)

\* strftime("%Y%m%d")
tally_date(dt_obj) ==
    IF dt_obj # None THEN ToString(dt_obj[1]) \o Pad2(dt_obj[2]) \o Pad2(dt_obj[3]) ELSE ""

\* row.get(col, default)
Get(row, col, default) == IF col \in DOMAIN row THEN row[col] ELSE default

\* a or b, on texts
OrText(a, b) == IF a # "" THEN a ELSE b

is_interstate(row) ==
    lower(strip(Get(row, "Ship From State", ""))) # lower(strip(Get(row, "Ship To State", "")))

voucher_type(txn) ==
    CASE lower(txn) = "refund" -> "Amazon Return"
      [] lower(txn) = "freereplacement" -> "Amazon Sales"
      [] lower(txn) = "cancel" -> "Amazon Cancel"
      [] OTHER -> "Amazon Sales"

(***************************************************************************)
(* fmt_amount.  Its argument is a Decimal as Decimal.as_tuple() shows it:  *)
(* [sign, coeff, exp], of value (-1)^sign * coeff * 10^exp; its result is  *)
(* the sequence of the characters of the text.                             *)
(***************************************************************************)
RECURSIVE Pow10(_)
Pow10(k) == IF k = 0 THEN 1 ELSE 10 * Pow10(k - 1)

RECURSIVE Digits(_)
\* the decimal digits of a natural number
Digits(n) == IF n < 10 THEN <<ToString(n)>> ELSE Digits(n \div 10) \o <<ToString(n % 10)>>

RECURSIVE rstrip(_, _)
\* str.rstrip(ch)
rstrip(text, ch) ==
    IF Len(text) > 0 /\ text[Len(text)] = ch
      THEN rstrip(SubSeq(text, 1, Len(text) - 1), ch)
      ELSE text

\* the Decimal of an amount counted in units of 0.005
HalfCents(units) ==
    [sign |-> IF units < 0 THEN 1 ELSE 0, coeff |-> 5 * Abs(units), exp |-> -3]

\* val == 0
IsZero(val) == val.coeff = 0

\* val == val.to_integral()
IsIntegral(val) == val.exp >= 0 \/ val.coeff % Pow10(-val.exp) = 0

\* the integer an integral Decimal equals, without its sign
IntegerOf(val) ==
    IF val.exp >= 0 THEN val.coeff * Pow10(val.exp) ELSE val.coeff \div Pow10(-val.exp)

\* val.quantize(Decimal("0.01")): whole cents, a half rounded to the even
\* cent (the context's ROUND_HALF_EVEN), the sign kept
quantize(val) ==
    IF val.exp >= -2
      THEN [sign |-> val.sign, coeff |-> val.coeff * Pow10(val.exp + 2), exp |-> -2]
      ELSE LET scale == Pow10(-2 - val.exp)
               q == val.coeff \div scale
               r == val.coeff % scale
               up == 2 * r > scale \/ (2 * r = scale /\ q % 2 = 1)
           IN [sign |-> val.sign, coeff |-> IF up THEN q + 1 ELSE q, exp |-> -2]

SignText(val) == IF val.sign = 1 THEN <<"-">> ELSE <<>>

\* the text of a quantized Decimal, the same under f"{q}" and f"{q:.2f}"
FixedTwo(q) ==
    SignText(q) \o Digits(q.coeff \div 100)
    \o <<".", ToString((q.coeff \div 10) % 10), ToString(q.coeff % 10)>>

\* f"{val:.1f}" of an integral Decimal
FixedOne(val) == SignText(val) \o Digits(IntegerOf(val)) \o <<".", "0">>

\* f"{val}": plain notation when the exponent is at most 0 and more than -6
\* digits stand left of the point, scientific notation otherwise
str(val) ==
    LET ds == Digits(val.coeff)
        leftdigits == val.exp + Len(ds)
        zeros == [i \in 1..(-leftdigits) |-> "0"]
    IN IF val.exp <= 0 /\ leftdigits > -6
         THEN IF val.exp = 0 THEN SignText(val) \o ds
              ELSE IF leftdigits > 0
                THEN SignText(val) \o SubSeq(ds, 1, leftdigits) \o <<".">>
                     \o SubSeq(ds, leftdigits + 1, Len(ds))
                ELSE SignText(val) \o <<"0", ".">> \o zeros \o ds
         ELSE SignText(val) \o <<ds[1]>>
              \o (IF Len(ds) > 1 THEN <<".">> \o SubSeq(ds, 2, Len(ds)) ELSE <<>>)
              \o <<"E", IF leftdigits - 1 < 0 THEN "-" ELSE "+">>
              \o Digits(Abs(leftdigits - 1))

fmt_amount(val, force_two) ==
    IF force_two THEN FixedTwo(quantize(val))
    ELSE IF IsZero(val) THEN <<"0">>
    ELSE IF IsIntegral(val) THEN FixedOne(val)
    ELSE IF \E i \in 1..Len(str(val)) : str(val)[i] = "."
      THEN rstrip(rstrip(FixedTwo(quantize(val)), "0"), ".")
      ELSE str(val)

(***************************************************************************)
(* build_voucher.  A ledger entry keeps the tags the claims read; AMOUNT   *)
(* holds the Decimal handed to fmt_amount, in units of 0.005, and the      *)
(* VATEXPAMOUNT of a GST entry the text fmt_amount returns for it, which   *)
(* the code writes in AMOUNT and in VATEXPAMOUNT alike.  A tag the code    *)
(* does not emit for an entry is the empty text.                           *)
(***************************************************************************)
principal_basis(row) == d(Get(row, "Principal Amount Basis", "0"))
invoice_amount(row) == d(Get(row, "Invoice Amount", "0"))
cgst(row) == d(Get(row, "Cgst Tax", "0"))
sgst(row) == d(Get(row, "Sgst Tax", "0"))
igst(row) == d(Get(row, "Igst Tax", "0"))
utgst(row) == d(Get(row, "Utgst Tax", "0"))
ship_amt(row) == d(Get(row, "Shipping Amount Basis", "0"))
ship_promo(row) == d(Get(row, "Shipping Promo Discount Basis", "0"))
ship_promo_tax(row) == d(Get(row, "Shipping Promo Tax", "0"))
ship_cgst(row) == d(Get(row, "Shipping Cgst Tax", "0"))
ship_sgst(row) == d(Get(row, "Shipping Sgst Tax", "0"))
ship_igst(row) == d(Get(row, "Shipping Igst Tax", "0"))
ship_utgst(row) == d(Get(row, "Shipping Utgst Tax", "0"))

txn_of(row) == strip(row["Transaction Type"])
order_id(row) == strip(row["Order Id"])
is_refund(row) == lower(txn_of(row)) = "refund"

\* party_amount without the abs() of the refund branch
party_amount_NoAbs(row) == -invoice_amount(row)

party_amount(row) == IF is_refund(row) THEN Abs(invoice_amount(row)) ELSE -invoice_amount(row)

\* Party ledger entry
PartyLedger(row) ==
    [LEDGERNAME |-> "Amazon.in",
     ISDEEMEDPOSITIVE |-> IF party_amount(row) < 0 THEN "Yes" ELSE "No",
     ISPARTYLEDGER |-> "Yes",
     AMOUNT |-> party_amount(row),
     BILLALLOCATIONS |-> <<[NAME |-> order_id(row), AMOUNT |-> party_amount(row)]>>]

\* Shipping ledger
ShippingLedger(row) ==
    IF ship_amt(row) # 0
      THEN <<[LEDGERNAME |-> "Shipping Charges",
              ISDEEMEDPOSITIVE |-> IF ship_amt(row) < 0 THEN "Yes" ELSE "No",
              ISPARTYLEDGER |-> "No",
              AMOUNT |-> ship_amt(row),
              BILLALLOCATIONS |-> <<>>]>>
      ELSE <<>>

PromoLedger(row) ==
    IF ship_promo(row) # 0
      THEN <<[LEDGERNAME |-> "ship-promotion-discount",
              ISDEEMEDPOSITIVE |-> "No",
              ISPARTYLEDGER |-> "No",
              AMOUNT |-> ship_promo(row),
              BILLALLOCATIONS |-> <<>>]>>
      ELSE <<>>

\* One GST ledger entry, emitted only if its amount is non-zero
IgstLedger(total_igst) ==
    IF total_igst # 0
      THEN <<[LEDGERNAME |-> "IGST @ 18%",
              ISDEEMEDPOSITIVE |-> IF total_igst < 0 THEN "Yes" ELSE "No",
              ISPARTYLEDGER |-> "No",
              AMOUNT |-> total_igst,
              VATEXPAMOUNT |-> fmt_amount(HalfCents(total_igst), FALSE),
              BILLALLOCATIONS |-> <<>>]>>
      ELSE <<>>

CgstLedger(total_cgst) ==
    IF total_cgst # 0
      THEN <<[LEDGERNAME |-> "CGST @ 9%",
              ISDEEMEDPOSITIVE |-> IF total_cgst < 0 THEN "Yes" ELSE "No",
              ISPARTYLEDGER |-> "",
              AMOUNT |-> total_cgst,
              VATEXPAMOUNT |-> fmt_amount(HalfCents(total_cgst), FALSE),
              BILLALLOCATIONS |-> <<>>]>>
      ELSE <<>>

SgstLedger(total_sgst) ==
    IF total_sgst # 0
      THEN <<[LEDGERNAME |-> "SGST @ 9%",
              ISDEEMEDPOSITIVE |-> IF total_sgst < 0 THEN "Yes" ELSE "No",
              ISPARTYLEDGER |-> "",
              AMOUNT |-> total_sgst,
              VATEXPAMOUNT |-> fmt_amount(HalfCents(total_sgst), FALSE),
              BILLALLOCATIONS |-> <<>>]>>
      ELSE <<>>

UtgstLedger(total_utgst) ==
    IF total_utgst # 0
      THEN <<[LEDGERNAME |-> "UTGST @ 9%",
              ISDEEMEDPOSITIVE |-> IF total_utgst < 0 THEN "Yes" ELSE "No",
              ISPARTYLEDGER |-> "",
              AMOUNT |-> total_utgst,
              VATEXPAMOUNT |-> fmt_amount(HalfCents(total_utgst), FALSE),
              BILLALLOCATIONS |-> <<>>]>>
      ELSE <<>>

\* ship_promo_tax / Decimal("2"): exact, amounts being counted in half cents
promo_split(row) == ship_promo_tax(row) \div 2

\* GstLedgers with the shipping-promo tax left out of the IGST total
GstLedgers_NoPromoInIgst(row) ==
    IF is_interstate(row)
      THEN IgstLedger(igst(row) + ship_igst(row))
      ELSE IF utgst(row) # 0 \/ ship_utgst(row) # 0
        THEN CgstLedger(cgst(row) + ship_cgst(row))
             \o SgstLedger(sgst(row) + ship_sgst(row))
             \o UtgstLedger(utgst(row) + ship_utgst(row) + ship_promo_tax(row))
        ELSE CgstLedger(cgst(row) + ship_cgst(row) + promo_split(row))
             \o SgstLedger(sgst(row) + ship_sgst(row) + promo_split(row))
             \o UtgstLedger(utgst(row) + ship_utgst(row))

\* GstLedgers with the UTGST branch taken on the item UTGST alone
GstLedgers_ItemUtgstOnly(row) ==
    IF is_interstate(row)
      THEN IgstLedger(igst(row) + ship_igst(row) + ship_promo_tax(row))
      ELSE IF utgst(row) # 0
        THEN CgstLedger(cgst(row) + ship_cgst(row))
             \o SgstLedger(sgst(row) + ship_sgst(row))
             \o UtgstLedger(utgst(row) + ship_utgst(row) + ship_promo_tax(row))
        ELSE CgstLedger(cgst(row) + ship_cgst(row) + promo_split(row))
             \o SgstLedger(sgst(row) + ship_sgst(row) + promo_split(row))
             \o UtgstLedger(utgst(row) + ship_utgst(row))

\* GST ledgers
GstLedgers(row) ==
    IF is_interstate(row)
      THEN IgstLedger(igst(row) + ship_igst(row) + ship_promo_tax(row))
      ELSE IF utgst(row) # 0 \/ ship_utgst(row) # 0
        THEN CgstLedger(cgst(row) + ship_cgst(row))
             \o SgstLedger(sgst(row) + ship_sgst(row))
             \o UtgstLedger(utgst(row) + ship_utgst(row) + ship_promo_tax(row))
        ELSE CgstLedger(cgst(row) + ship_cgst(row) + promo_split(row))
             \o SgstLedger(sgst(row) + ship_sgst(row) + promo_split(row))
             \o UtgstLedger(utgst(row) + ship_utgst(row))

\* The ACCOUNTINGALLOCATIONS.LIST of the inventory line
AccountingAllocation(row) ==
    [LEDGERNAME |-> IF is_interstate(row) THEN "Sales GST Interstate @ 18%"
                                          ELSE "Sales GST Local @ 18%",
     ISDEEMEDPOSITIVE |-> IF principal_basis(row) < 0 THEN "Yes" ELSE "No",
     ISPARTYLEDGER |-> "No",
     AMOUNT |-> principal_basis(row),
     BILLALLOCATIONS |-> <<>>]

\* Inventory line
InventoryEntry(row) ==
    [STOCKITEMNAME |-> strip(Get(row, "Sku", "")),
     ISDEEMEDPOSITIVE |-> IF principal_basis(row) < 0 THEN "Yes" ELSE "No",
     RATE |-> Abs(principal_basis(row)),
     AMOUNT |-> principal_basis(row),
     ACCOUNTINGALLOCATIONS |-> <<AccountingAllocation(row)>>]

dt_invoice(row) == parse_date(row["Invoice Date"])
dt_order(row) == parse_date(OrText(Get(row, "Order Date", ""), row["Invoice Date"]))
dt_credit(row) == parse_date(OrText(Get(row, "Credit Note Date", ""), row["Invoice Date"]))

date_for_voucher(row) == IF is_refund(row) THEN dt_credit(row).val ELSE dt_invoice(row).val

\* The entry build_voucher appends to log_rows
LogRow(row) ==
    [txn |-> txn_of(row), order |-> order_id(row), interstate |-> is_interstate(row),
     invoice_amount |-> invoice_amount(row), tcs_totals |-> <<>>]

\* SubscriptedColumns with the country read with a default
SubscriptedColumns_CountryDefaulted ==
    {"Transaction Type", "Invoice Number", "Order Id", "Invoice Date", "Ship To State",
     "Ship To City", "Ship To Postal Code"}

\* the columns build_voucher reads by subscript: a KeyError when one is absent
SubscriptedColumns ==
    {"Transaction Type", "Invoice Number", "Order Id", "Invoice Date", "Ship To State",
     "Ship To City", "Ship To Postal Code", "Ship To Country"}

\* [raises |-> an exception leaves build_voucher, voucher |-> the VOUCHER element]
build_voucher(row) ==
  IF ~(SubscriptedColumns \subseteq DOMAIN row) THEN [raises |-> TRUE, voucher |-> <<>>]
  ELSE
    [raises |-> dt_invoice(row).raises \/ dt_order(row).raises \/ dt_credit(row).raises,
     voucher |->
       [VCHTYPE |-> voucher_type(txn_of(row)),
        DATE |-> tally_date(date_for_voucher(row)),
        REFERENCEDATE |-> IF is_refund(row) THEN tally_date(dt_invoice(row).val) ELSE "",
        REFERENCE |-> IF is_refund(row) THEN strip(row["Invoice Number"]) ELSE order_id(row),
        VOUCHERNUMBER |-> IF is_refund(row) THEN strip(Get(row, "Credit Note No", ""))
                                            ELSE strip(row["Invoice Number"]),
        LEDGERENTRIES |-> <<PartyLedger(row)>> \o ShippingLedger(row) \o PromoLedger(row)
                          \o GstLedgers(row),
        ALLINVENTORYENTRIES |-> <<InventoryEntry(row)>>]]

(***************************************************************************)
(* build_tcs_voucher                                                       *)
(***************************************************************************)
tcs_cg(r) == d(Get(r, "Tcs Cgst Amount", "0"))
tcs_sg(r) == d(Get(r, "Tcs Sgst Amount", "0"))
tcs_ug(r) == d(Get(r, "Tcs Utgst Amount", "0"))
tcs_ig(r) == d(Get(r, "Tcs Igst Amount", "0"))
tcs_key(r) == strip(Get(r, "Order Id", ""))

RECURSIVE SumColumn(_, _, _)
\* the sum of d(r.get(col, 0)) over the first n rows
SumColumn(rs, col, n) ==
    IF n = 0 THEN 0 ELSE SumColumn(rs, col, n - 1) + d(Get(rs[n], col, "0"))

\* totals: the four grand totals (a defaultdict, every absent key reading 0)
totals(rs) ==
    [cgst |-> SumColumn(rs, "Tcs Cgst Amount", Len(rs)),
     sgst |-> SumColumn(rs, "Tcs Sgst Amount", Len(rs)),
     utgst |-> SumColumn(rs, "Tcs Utgst Amount", Len(rs)),
     igst |-> SumColumn(rs, "Tcs Igst Amount", Len(rs))]

RECURSIVE per_order(_, _)
\* per_order after the first n rows: the (order, amount) items in insertion order
per_order(rs, n) ==
    IF n = 0 THEN <<>>
    ELSE LET prev == per_order(rs, n - 1)
             k == tcs_key(rs[n])
             add == tcs_cg(rs[n]) + tcs_sg(rs[n]) + tcs_ug(rs[n]) + tcs_ig(rs[n])
         IN IF \E j \in 1..Len(prev) : prev[j].order = k
              THEN [j \in 1..Len(prev) |->
                      IF prev[j].order = k
                        THEN [order |-> k, amt |-> prev[j].amt + add]
                        ELSE prev[j]]
              ELSE Append(prev, [order |-> k, amt |-> add])

\* all_totals_zero testing the net of the four totals instead of each total
all_totals_zero_NetOnly(rs) ==
    \/ Len(rs) = 0
    \/ totals(rs).cgst + totals(rs).sgst + totals(rs).utgst + totals(rs).igst = 0

\* all(v == 0 for v in totals.values()): no row leaves totals empty
all_totals_zero(rs) ==
    \/ Len(rs) = 0
    \/ (totals(rs).cgst = 0 /\ totals(rs).sgst = 0 /\ totals(rs).utgst = 0 /\ totals(rs).igst = 0)

\* a datetime precedes another
DtLess(a, b) ==
    \E k \in 1..5 : a[k] < b[k] /\ \A j \in 1..(k - 1) : a[j] = b[j]

\* the parsed invoice dates that are not None
dt_invoices(rs) ==
    {parse_date(Get(rs[i], "Invoice Date", "")).val : i \in 1..Len(rs)} \ {None}

dt_min(rs) ==
    IF dt_invoices(rs) # {}
      THEN CHOOSE a \in dt_invoices(rs) : \A b \in dt_invoices(rs) : ~DtLess(b, a)
      ELSE Today

dt_max(rs) ==
    IF dt_invoices(rs) # {}
      THEN CHOOSE a \in dt_invoices(rs) : \A b \in dt_invoices(rs) : ~DtLess(a, b)
      ELSE Today

\* add_tcs_line with the deemed-positive flag set on a positive amount
add_tcs_line_FlagPositive(name, amount) ==
    [LEDGERNAME |-> name,
     ISDEEMEDPOSITIVE |-> IF amount > 0 THEN "Yes" ELSE "No",
     ISPARTYLEDGER |-> "No",
     AMOUNT |-> amount,
     BILLALLOCATIONS |-> <<>>]

\* strftime("%b  %d %Y  %I:%M%p"); every date of the model lies in Jan or Feb
tcs_stamp(dt_obj) ==
    (IF dt_obj[2] = 1 THEN "Jan" ELSE "Feb") \o "  " \o Pad2(dt_obj[3]) \o " "
    \o ToString(dt_obj[1]) \o "  "
    \o Pad2(IF dt_obj[4] % 12 = 0 THEN 12 ELSE dt_obj[4] % 12) \o ":" \o Pad2(dt_obj[5])
    \o (IF dt_obj[4] < 12 THEN "AM" ELSE "PM")

add_tcs_line(name, amount) ==
    [LEDGERNAME |-> name,
     ISDEEMEDPOSITIVE |-> IF amount < 0 THEN "Yes" ELSE "No",
     ISPARTYLEDGER |-> "No",
     AMOUNT |-> amount,
     BILLALLOCATIONS |-> <<>>]

\* total_net without the IGST total
total_net_NoIgst(rs) == totals(rs).cgst + totals(rs).sgst + totals(rs).utgst

total_net(rs) == totals(rs).cgst + totals(rs).sgst + totals(rs).utgst + totals(rs).igst

\* TcsBills without the skip of the orders whose amount is 0
TcsBills_NoSkip(rs) ==
    LET po == per_order(rs, Len(rs))
    IN [j \in 1..Len(po) |-> [NAME |-> po[j].order, AMOUNT |-> po[j].amt]]

\* the bill allocations of the party line: one per order whose amount is not 0
TcsBills(rs) ==
    LET po == per_order(rs, Len(rs))
        keep == SelectSeq(po, LAMBDA e : e.amt # 0)
    IN [j \in 1..Len(keep) |-> [NAME |-> keep[j].order, AMOUNT |-> keep[j].amt]]

TcsPartyLine(rs) ==
    IF total_net(rs) # 0
      THEN <<[LEDGERNAME |-> "Amazon.in",
              ISDEEMEDPOSITIVE |-> IF total_net(rs) > 0 THEN "No" ELSE "Yes",
              ISPARTYLEDGER |-> "Yes",
              AMOUNT |-> total_net(rs),
              BILLALLOCATIONS |-> TcsBills(rs)]>>
      ELSE <<>>

\* the entry build_tcs_voucher appends to debug_rows
TcsLogRow(rs) ==
    [txn |-> "", order |-> "", interstate |-> FALSE, invoice_amount |-> 0,
     tcs_totals |-> IF Len(rs) = 0 THEN <<>> ELSE <<totals(rs)>>]

\* [raises, none |-> the function returns None, voucher |-> the VOUCHER element]
build_tcs_voucher(rs) ==
    [raises |-> ~all_totals_zero(rs)
                /\ \E i \in 1..Len(rs) : parse_date(Get(rs[i], "Invoice Date", "")).raises,
     none |-> all_totals_zero(rs),
     voucher |->
       [VCHTYPE |-> "Journal",
        DATE |-> tally_date(dt_max(rs)),
        REFERENCEDATE |-> "",
        REFERENCE |-> "",
        VOUCHERNUMBER |-> tcs_stamp(dt_max(rs)),
        LEDGERENTRIES |-> <<add_tcs_line("Amazon - TCS - CGST", -totals(rs).cgst),
                            add_tcs_line("Amazon - TCS - SGST", -totals(rs).sgst),
                            add_tcs_line("Amazon - TCS - UTGST", -totals(rs).utgst),
                            add_tcs_line("Amazon - TCS - IGST", -totals(rs).igst)>>
                          \o TcsPartyLine(rs),
        ALLINVENTORYENTRIES |-> <<>>]]

(***************************************************************************)
(* The input batches.                                                      *)
(***************************************************************************)
MoneyColumns ==
    {"Principal Amount Basis", "Invoice Amount", "Cgst Tax", "Sgst Tax", "Igst Tax",
     "Utgst Tax", "Shipping Amount Basis", "Shipping Promo Discount Basis",
     "Shipping Promo Tax", "Shipping Cgst Tax", "Shipping Sgst Tax", "Shipping Igst Tax",
     "Shipping Utgst Tax"}

TcsColumns == {"Tcs Cgst Amount", "Tcs Sgst Amount", "Tcs Utgst Amount", "Tcs Igst Amount"}

Columns ==
    {"Transaction Type", "Invoice Number", "Order Id", "Credit Note No", "Invoice Date",
     "Order Date", "Credit Note Date", "Ship From State", "Ship To State", "Ship To City",
     "Ship To Postal Code", "Ship To Country", "Quantity", "Item Description", "Sku",
     "Fulfillment Channel", "Payment Method Code"}
    \cup MoneyColumns \cup TcsColumns

\* A plain intrastate shipment whose amounts are all zero
BaseRow ==
    [c \in Columns |->
        CASE c = "Transaction Type" -> "Shipment"
          [] c = "Invoice Number" -> "IN-1"
          [] c = "Order Id" -> "171-0000001"
          [] c = "Credit Note No" -> ""
          [] c = "Invoice Date" -> "05-01-2024 10:30"
          [] c = "Order Date" -> ""
          [] c = "Credit Note Date" -> ""
          [] c = "Ship From State" -> "KARNATAKA"
          [] c = "Ship To State" -> "KARNATAKA"
          [] c = "Ship To City" -> "Bengaluru"
          [] c = "Ship To Postal Code" -> "560001"
          [] c = "Ship To Country" -> "IN"
          [] c = "Quantity" -> "1"
          [] c = "Item Description" -> "Model"
          [] c = "Sku" -> "SKU-1"
          [] c = "Fulfillment Channel" -> "MFN"
          [] c = "Payment Method Code" -> "COD"
          [] OTHER -> "0"]

\* row with the cells of f written over it
Overlay(row, f) == [c \in DOMAIN row |-> IF c \in DOMAIN f THEN f[c] ELSE row[c]]

\* the non-zero texts a monetary cell takes
NonZeroTexts(c) ==
    IF c = "Shipping Promo Tax" THEN {"0.01", "-0.01", "0.02", "-0.02"} ELSE {"0.01", "-0.01"}

\* the assignments of non-zero texts to at most MaxNonZero monetary cells
MoneyCells ==
    UNION {{f \in [S -> {"0.01", "-0.01", "0.02", "-0.02"}] :
              \A c \in S : f[c] \in NonZeroTexts(c)} :
           S \in {T \in SUBSET MoneyColumns : Cardinality(T) <= MaxNonZero}}

HeaderCells ==
    {[c \in {"Transaction Type", "Ship To State"} |->
         IF c = "Transaction Type" THEN t ELSE s] :
       t \in {"Shipment", "Refund"}, s \in {" karnataka ", "DELHI"}}

\* rows that vary the monetary cells of the voucher
MoneyRows == {Overlay(Overlay(BaseRow, h), f) : h \in HeaderCells, f \in MoneyCells}

\* refunds, spelled three ways, of a large invoice amount of either sign
RefundRows ==
    {[BaseRow EXCEPT !["Transaction Type"] = t, !["Invoice Amount"] = a,
                     !["Igst Tax"] = g, !["Ship To State"] = "DELHI"] :
       t \in {"Refund", " REFUND ", "REFUND", "Cancel"}, a \in {"1000.00", "-1000.00"},
       g \in {"0", "0.02", "-0.02"}}

\* rows that vary the transaction type and the three dates
DateRows ==
    {[BaseRow EXCEPT !["Transaction Type"] = t, !["Invoice Date"] = i,
                     !["Credit Note Date"] = c, !["Order Date"] = o,
                     !["Credit Note No"] = "CN-1"] :
       t \in {"Shipment", "Refund", "Cancel", "FreeReplacement"},
       i \in {"05-01-2024 10:30", "06-01-2024 9am", "2024-01-05", ""},
       c \in {"", "   ", "07-01-2024 09:15", "06-01-2024", "n/a"},
       o \in {"", "05-01-2024", "yesterday"}}

\* rows whose monetary cells hold texts that are no decimal literal
LenientRows ==
    {[BaseRow EXCEPT !["Invoice Amount"] = a, !["Cgst Tax"] = b, !["Tcs Igst Amount"] = c] :
       a \in {"", "   ", "abc", " 0.01 "}, b \in {"", "n/a", " 0.01 "},
       c \in {"", "abc", " 0.01 "}}

TcsCells ==
    {[c \in TcsColumns |->
         CASE c = "Tcs Cgst Amount" -> q[1]
           [] c = "Tcs Sgst Amount" -> q[2]
           [] c = "Tcs Utgst Amount" -> q[3]
           [] OTHER -> q[4]] :
       q \in {<<"0", "0", "0", "0">>, <<"0.01", "0", "0", "0">>, <<"-0.01", "0", "0", "0">>,
              <<"0", "-0.01", "0", "0">>, <<"0", "0", "0.01", "0">>, <<"0", "0", "0", "0.02">>,
              <<"0.01", "-0.01", "0", "0">>}}

\* rows that vary the order, the TCS cells and the invoice date
TcsRows ==
    {Overlay([BaseRow EXCEPT !["Order Id"] = o], f) :
       o \in {"171-0000001", "171-0000002"}, f \in TcsCells}
    \cup {[BaseRow EXCEPT !["Order Id"] = "171-0000001 ", !["Tcs Cgst Amount"] = a] :
            a \in {"0.01", "-0.01"}}
    \cup {[BaseRow EXCEPT !["Invoice Date"] = i, !["Tcs Cgst Amount"] = "0.01"] :
            i \in {"2024-01-05", "", "07-01-2024 09:15"}}

RECURSIVE SeqsUpTo(_, _)
\* the sequences over S of length at most n
SeqsUpTo(S, n) ==
    IF n = 0 THEN {<<>>}
    ELSE SeqsUpTo(S, n - 1) \cup {Append(q, x) : q \in SeqsUpTo(S, n - 1), x \in S}

\* the contents of the input file
Batches ==
    {<<r>> : r \in MoneyRows \cup RefundRows \cup DateRows \cup LenientRows} \cup SeqsUpTo(TcsRows, MaxRows)

(***************************************************************************)
(* convert.  pc is the position in convert: "open" before the input is     *)
(* read, "rows" in the loop over the rows, "tcs" before build_tcs_voucher, *)
(* "write" before tree.write, "log" before the debug log is written,       *)
(* "done" after the return, "raised" after an exception left convert.      *)
(* xml is the output file: absent, partial (the write broke off) or        *)
(* complete, with the TALLYMESSAGE list it holds.                          *)
(***************************************************************************)
DEBUG == TRUE

TALLYMESSAGE(voucher) == [VOUCHER |-> voucher]

\* row without the column c
Drop(row, c) == [x \in (DOMAIN row) \ {c} |-> row[x]]

\* two rows of different orders, with amounts in the cells read with a default
SampleRows ==
    {[BaseRow EXCEPT !["Invoice Amount"] = "0.01", !["Cgst Tax"] = "0.01",
                     !["Tcs Cgst Amount"] = "0.01"],
     [BaseRow EXCEPT !["Transaction Type"] = "Refund", !["Order Id"] = "171-0000002",
                     !["Credit Note Date"] = "07-01-2024 09:15", !["Ship To State"] = "DELHI",
                     !["Igst Tax"] = "-0.02"]}

\* the input files whose header lacks one column, of zero, one and two rows
MissingColumnInputs ==
    {[header |-> Columns \ {c}, rows |-> [i \in DOMAIN q |-> Drop(q[i], c)]] :
       c \in Columns,
       q \in {<<>>} \cup {<<r>> : r \in SampleRows} \cup (SampleRows \X SampleRows)}

\* the input files: the header and the rows csv.DictReader yields
Inputs == {[header |-> Columns, rows |-> b] : b \in Batches} \cup MissingColumnInputs

Init ==
    /\ \E in \in Inputs : header = in.header /\ rows = in.rows
    /\ arg = <<>>
    /\ res = <<>>
    /\ pc = "open"
    /\ idx = 0
    /\ reqdata = <<>>
    /\ debug_rows = <<>>
    /\ xml = [state |-> "absent", messages |-> <<>>]
    /\ logfile = [state |-> "absent", rows |-> <<>>]

\* open(csv_path) and csv.DictReader succeed
ReadRows ==
    /\ pc = "open"
    /\ pc' = "rows"
    /\ idx' = 1
    /\ UNCHANGED <<header, arg, res, rows, reqdata, debug_rows, xml, logfile>>

\* the input file cannot be read
ReadFails ==
    /\ pc = "open"
    /\ pc' = "raised"
    /\ UNCHANGED <<header, arg, res, rows, idx, reqdata, debug_rows, xml, logfile>>

\* AppendVoucher with the message put in front of the list
AppendVoucher_Prepend ==
    /\ pc = "rows"
    /\ idx <= Len(rows)
    /\ ~build_voucher(rows[idx]).raises
    /\ reqdata' = <<[VOUCHER |-> build_voucher(rows[idx]).voucher]>> \o reqdata
    /\ debug_rows' = Append(debug_rows, LogRow(rows[idx]))
    /\ idx' = idx + 1
    /\ UNCHANGED <<header, arg, res, rows, pc, xml, logfile>>

\* one turn of the loop over the rows: the voucher is appended in a message
AppendVoucher ==
    /\ pc = "rows"
    /\ idx <= Len(rows)
    /\ ~build_voucher(rows[idx]).raises
    /\ reqdata' = Append(reqdata, TALLYMESSAGE(build_voucher(rows[idx]).voucher))
    /\ debug_rows' = IF DEBUG THEN Append(debug_rows, LogRow(rows[idx])) ELSE debug_rows
    /\ idx' = idx + 1
    /\ UNCHANGED <<header, arg, res, rows, pc, xml, logfile>>

\* build_voucher raises: the exception leaves convert
VoucherRaises ==
    /\ pc = "rows"
    /\ idx <= Len(rows)
    /\ build_voucher(rows[idx]).raises
    /\ pc' = "raised"
    /\ UNCHANGED <<header, arg, res, rows, idx, reqdata, debug_rows, xml, logfile>>

\* the loop is over: build_tcs_voucher, its voucher appended unless None
AppendTcs ==
    /\ pc = "rows"
    /\ idx > Len(rows)
    /\ debug_rows' = IF DEBUG THEN Append(debug_rows, TcsLogRow(rows)) ELSE debug_rows
    /\ IF build_tcs_voucher(rows).raises
         THEN pc' = "raised" /\ UNCHANGED reqdata
         ELSE /\ pc' = "write"
              /\ reqdata' = IF build_tcs_voucher(rows).none
                              THEN reqdata
                              ELSE Append(reqdata, TALLYMESSAGE(build_tcs_voucher(rows).voucher))
    /\ UNCHANGED <<header, arg, res, rows, idx, xml, logfile>>

\* tree.write succeeds
WriteXml ==
    /\ pc = "write"
    /\ xml' = [state |-> "complete", messages |-> reqdata]
    /\ pc' = "log"
    /\ UNCHANGED <<header, arg, res, rows, idx, reqdata, debug_rows, logfile>>

\* tree.write cannot open the output path
WriteXmlOpenFails ==
    /\ pc = "write"
    /\ pc' = "raised"
    /\ UNCHANGED <<header, arg, res, rows, idx, reqdata, debug_rows, xml, logfile>>

\* tree.write breaks off after the file was opened: a part of the document is left
WriteXmlBreaks ==
    /\ pc = "write"
    /\ \E k \in 0..Len(reqdata) :
         /\ k < Len(reqdata) \/ Len(reqdata) = 0
         /\ xml' = [state |-> "partial", messages |-> SubSeq(reqdata, 1, k)]
    /\ pc' = "raised"
    /\ UNCHANGED <<header, arg, res, rows, idx, reqdata, debug_rows, logfile>>

\* the debug log is written
WriteLog ==
    /\ pc = "log"
    /\ logfile' = IF DEBUG THEN [state |-> "complete", rows |-> debug_rows] ELSE logfile
    /\ pc' = "done"
    /\ UNCHANGED <<header, arg, res, rows, idx, reqdata, debug_rows, xml>>

\* the debug log cannot be opened or written
WriteLogFails ==
    /\ pc = "log"
    /\ DEBUG
    /\ pc' = "raised"
    /\ UNCHANGED <<header, arg, res, rows, idx, reqdata, debug_rows, xml, logfile>>

Next ==
    \/ ReadRows
    \/ ReadFails
    \/ AppendVoucher
    \/ VoucherRaises
    \/ AppendTcs
    \/ WriteXml
    \/ WriteXmlOpenFails
    \/ WriteXmlBreaks
    \/ WriteLog
    \/ WriteLogFails

Spec == Init /\ [][Next]_vars

(***************************************************************************)
(* Properties.                                                             *)
(***************************************************************************)
RECURSIVE SumAmounts(_, _)
\* the sum of the AMOUNT of the first n entries of a sequence
SumAmounts(es, n) == IF n = 0 THEN 0 ELSE SumAmounts(es, n - 1) + es[n].AMOUNT

IsJournal(msg) == msg.VOUCHER.VCHTYPE = "Journal"

\* the positions of the messages that hold an invoice voucher; the voucher at
\* position i was built from rows[i]
RowMessages == {i \in 1..Len(reqdata) : ~IsJournal(reqdata[i])}

\* the entries of a voucher that carry the ledger name
Named(voucher, name) == SelectSeq(voucher.LEDGERENTRIES, LAMBDA e : e.LEDGERNAME = name)

HasTcs(msgs) == \E i \in 1..Len(msgs) : IsJournal(msgs[i])

\* the amount of a monetary cell, an absent cell reading as 0
Cell(row, col) == d(Get(row, col, "0"))

\* C1: the invoice voucher of every row nets to zero: the party amount is
\* the negation of the sum of all its other ledger entries plus the
\* accounting allocation of the inventory line.
C1_VoucherNetsToZero ==
    \A i \in RowMessages :
      LET v == reqdata[i].VOUCHER
          les == v.LEDGERENTRIES
      IN les[1].AMOUNT =
           -((SumAmounts(les, Len(les)) - les[1].AMOUNT)
             + v.ALLINVENTORYENTRIES[1].ACCOUNTINGALLOCATIONS[1].AMOUNT)

\* the batch grand total of a TCS column
GrandTotal(col) == SumAmounts([i \in 1..Len(rows) |-> [AMOUNT |-> Cell(rows[i], col)]], Len(rows))

AnyGrandTotalNonZero == \E col \in TcsColumns : GrandTotal(col) # 0

\* convert is past build_tcs_voucher
PastTcs == pc \in {"write", "log", "done"}

\* C2: convert appends a TCS journal voucher iff one of the four batch-wide
\* TCS grand totals is non-zero (the empty batch included); a batch whose
\* TCS cells are all zero never gets one, and the written document holds
\* the TCS voucher exactly when convert appended it.
C2_TcsIffNonZeroTotal ==
    /\ PastTcs => (HasTcs(reqdata) <=> AnyGrandTotalNonZero)
    /\ HasTcs(reqdata) => AnyGrandTotalNonZero
    /\ (\A i \in 1..Len(rows) : \A col \in TcsColumns : Cell(rows[i], col) = 0)
         => ~HasTcs(reqdata) /\ ~HasTcs(xml.messages)
    /\ xml.state = "complete" => (HasTcs(xml.messages) <=> AnyGrandTotalNonZero)

\* C2 witness: a run over two rows ended with a TCS voucher in the document
\* although one row has no TCS amount at all.
C2_Witness ==
    /\ pc = "done"
    /\ Len(rows) = 2
    /\ HasTcs(xml.messages)
    /\ \A col \in TcsColumns : Cell(rows[1], col) = 0

\* the TCS vouchers among the messages
TcsVouchers == {reqdata[i].VOUCHER : i \in {j \in 1..Len(reqdata) : IsJournal(reqdata[j])}}

\* the four component lines of a TCS voucher are the negated grand totals
ComponentLines(v) ==
    /\ Len(v.LEDGERENTRIES) >= 4
    /\ v.LEDGERENTRIES[1].LEDGERNAME = "Amazon - TCS - CGST"
    /\ v.LEDGERENTRIES[1].AMOUNT = -GrandTotal("Tcs Cgst Amount")
    /\ v.LEDGERENTRIES[2].LEDGERNAME = "Amazon - TCS - SGST"
    /\ v.LEDGERENTRIES[2].AMOUNT = -GrandTotal("Tcs Sgst Amount")
    /\ v.LEDGERENTRIES[3].LEDGERNAME = "Amazon - TCS - UTGST"
    /\ v.LEDGERENTRIES[3].AMOUNT = -GrandTotal("Tcs Utgst Amount")
    /\ v.LEDGERENTRIES[4].LEDGERNAME = "Amazon - TCS - IGST"
    /\ v.LEDGERENTRIES[4].AMOUNT = -GrandTotal("Tcs Igst Amount")

NetTotal ==
    GrandTotal("Tcs Cgst Amount") + GrandTotal("Tcs Sgst Amount")
    + GrandTotal("Tcs Utgst Amount") + GrandTotal("Tcs Igst Amount")

\* the fifth line is the Amazon party line: the net of the four totals, the
\* negation of the sum of the four component lines
PartyLine(v) ==
    /\ Len(v.LEDGERENTRIES) = 5
    /\ v.LEDGERENTRIES[5].LEDGERNAME = "Amazon.in"
    /\ v.LEDGERENTRIES[5].ISPARTYLEDGER = "Yes"
    /\ v.LEDGERENTRIES[5].AMOUNT = NetTotal
    /\ v.LEDGERENTRIES[5].AMOUNT = -SumAmounts(v.LEDGERENTRIES, 4)

\* C3 as stated: every TCS voucher has the four component lines followed by
\* one final Amazon party line that carries the net of the four totals.
C3_Original_AlwaysPartyLine ==
    \A v \in TcsVouchers : ComponentLines(v) /\ PartyLine(v)

\* C3 amended: every TCS voucher has exactly the four component lines, each
\* the negation of its grand total; the final Amazon party line follows them
\* exactly when the net of the four totals is non-zero, and is then that net.
C3_PartyLineIffNetNonZero ==
    \A v \in TcsVouchers :
      /\ ComponentLines(v)
      /\ IF NetTotal # 0 THEN PartyLine(v) ELSE Len(v.LEDGERENTRIES) = 4

\* C3 witness: a written TCS voucher whose party line nets two non-zero totals.
C3_Witness ==
    /\ pc = "done"
    /\ \E v \in TcsVouchers :
         /\ PartyLine(v)
         /\ GrandTotal("Tcs Cgst Amount") > 0
         /\ GrandTotal("Tcs Igst Amount") > 0

\* the order ids of the batch
OrderIds == {strip(Get(rows[i], "Order Id", "")) : i \in 1..Len(rows)}

\* the per-order TCS total: the four TCS components over all rows of the order
PerOrderTotal(o) ==
    SumAmounts([i \in 1..Len(rows) |->
                  [AMOUNT |-> IF strip(rows[i]["Order Id"]) = o
                                THEN Cell(rows[i], "Tcs Cgst Amount") + Cell(rows[i], "Tcs Sgst Amount")
                                     + Cell(rows[i], "Tcs Utgst Amount") + Cell(rows[i], "Tcs Igst Amount")
                                ELSE 0]], Len(rows))

\* the bill allocations of all ledger lines of a voucher, in order
RECURSIVE AllBills(_, _)
AllBills(les, n) == IF n = 0 THEN <<>> ELSE AllBills(les, n - 1) \o les[n].BILLALLOCATIONS

\* a voucher carries exactly one bill allocation per order with a non-zero
\* per-order total, holding that total, and none for any other order
BillsPerOrder(v) ==
    LET bills == AllBills(v.LEDGERENTRIES, Len(v.LEDGERENTRIES)) IN
    /\ \A o \in OrderIds :
         PerOrderTotal(o) # 0 =>
           Cardinality({j \in 1..Len(bills) : bills[j].NAME = o}) = 1
    /\ \A j \in 1..Len(bills) :
         /\ bills[j].NAME \in OrderIds
         /\ PerOrderTotal(bills[j].NAME) # 0
         /\ bills[j].AMOUNT = PerOrderTotal(bills[j].NAME)

\* C4 as stated: every TCS voucher carries one bill allocation per order whose
\* per-order TCS total is non-zero.
C4_Original_BillsWheneverProduced == \A v \in TcsVouchers : BillsPerOrder(v)

\* C4 amended: every TCS voucher whose four totals net to a non-zero amount
\* carries exactly one bill allocation per order with a non-zero per-order
\* TCS total, with that total as amount, and none for an order whose total
\* is zero; a TCS voucher whose totals net to zero carries no bill allocation.
C4_BillsWhenNetNonZero ==
    \A v \in TcsVouchers :
      IF NetTotal # 0
        THEN BillsPerOrder(v)
        ELSE AllBills(v.LEDGERENTRIES, Len(v.LEDGERENTRIES)) = <<>>

\* C4 witness: a written TCS voucher over two orders, one with a non-zero
\* per-order total made of two rows and one whose components cancel.
C4_Witness ==
    /\ pc = "done"
    /\ Len(rows) = 2
    /\ \E v \in TcsVouchers :
         /\ Len(AllBills(v.LEDGERENTRIES, Len(v.LEDGERENTRIES))) = 1
         /\ Cardinality(OrderIds) = 2
         /\ \E o \in OrderIds : PerOrderTotal(o) = 0 /\ \E i \in 1..2 :
               strip(rows[i]["Order Id"]) = o /\ Cell(rows[i], "Tcs Cgst Amount") # 0

\* C5: after a successful convert on n rows the written document holds, for
\* each i in 1..n, the voucher built from the i-th row as its i-th message,
\* and the TCS voucher, when present, is the single message after them.
C5_OutputInInputOrder ==
    pc = "done" =>
      /\ xml.state = "complete"
      /\ Len(xml.messages) \in {Len(rows), Len(rows) + 1}
      /\ \A i \in 1..Len(rows) :
           /\ ~IsJournal(xml.messages[i])
           /\ xml.messages[i] = [VOUCHER |-> build_voucher(rows[i]).voucher]
           /\ xml.messages[i].VOUCHER.LEDGERENTRIES[1].BILLALLOCATIONS[1].NAME
                = strip(rows[i]["Order Id"])
      /\ Len(xml.messages) = Len(rows) + 1 => IsJournal(xml.messages[Len(rows) + 1])
      /\ HasTcs(xml.messages) => Len(xml.messages) = Len(rows) + 1

\* C5 witness: a finished run over two rows of different orders, with the
\* TCS voucher third.
C5_Witness ==
    /\ pc = "done"
    /\ Len(rows) = 2
    /\ strip(rows[1]["Order Id"]) # strip(rows[2]["Order Id"])
    /\ Len(xml.messages) = 3
    /\ IsJournal(xml.messages[3])

\* the row is interstate: its two states differ once trimmed and lower-cased
Interstate(row) ==
    lower(strip(Get(row, "Ship From State", ""))) # lower(strip(Get(row, "Ship To State", "")))

LocalGstNames == {"CGST @ 9%", "SGST @ 9%", "UTGST @ 9%"}

\* the voucher holds one entry of that name with that amount when the amount
\* is non-zero, and no entry of that name when it is zero
EmittedIffNonZero(v, name, amount) ==
    IF amount # 0
      THEN Len(Named(v, name)) = 1 /\ Named(v, name)[1].AMOUNT = amount
      ELSE Len(Named(v, name)) = 0

\* C6: the voucher of an interstate row holds an IGST @ 18% entry iff item
\* IGST + shipping IGST + shipping-promo tax is non-zero, with that sum as
\* amount, and no CGST, SGST or UTGST entry whatever those cells hold.
C6_InterstateIgstOnly ==
    \A i \in RowMessages :
      Interstate(rows[i]) =>
        /\ EmittedIffNonZero(reqdata[i].VOUCHER, "IGST @ 18%",
             Cell(rows[i], "Igst Tax") + Cell(rows[i], "Shipping Igst Tax")
             + Cell(rows[i], "Shipping Promo Tax"))
        /\ \A name \in LocalGstNames : Len(Named(reqdata[i].VOUCHER, name)) = 0

\* C6 witness: an interstate row with a non-zero CGST cell whose IGST entry
\* sums an IGST cell and the shipping-promo tax.
C6_Witness ==
    /\ pc = "done"
    /\ \E i \in RowMessages :
         /\ Interstate(rows[i])
         /\ Cell(rows[i], "Shipping Igst Tax") # 0
         /\ Cell(rows[i], "Shipping Promo Tax") # 0
         /\ Len(Named(reqdata[i].VOUCHER, "IGST @ 18%")) = 1

\* a union-territory component is present in the row
HasUtgst(row) == Cell(row, "Utgst Tax") # 0 \/ Cell(row, "Shipping Utgst Tax") # 0

\* C7: the voucher of an intrastate row holds no IGST entry; with a UTGST
\* component present UTGST = item + shipping UTGST + promo tax, CGST and
\* SGST = item + shipping; otherwise CGST and SGST = item + shipping + half
\* the promo tax and UTGST = item + shipping UTGST; each of the three is
\* emitted iff its amount is non-zero.
C7_IntrastateTwoBranches ==
    \A i \in RowMessages :
      ~Interstate(rows[i]) =>
        LET v == reqdata[i].VOUCHER
            r == rows[i]
            promo == Cell(r, "Shipping Promo Tax")
            halfpromo == CHOOSE h \in -Abs(promo)..Abs(promo) : 2 * h = promo
            c == Cell(r, "Cgst Tax") + Cell(r, "Shipping Cgst Tax")
            s == Cell(r, "Sgst Tax") + Cell(r, "Shipping Sgst Tax")
            u == Cell(r, "Utgst Tax") + Cell(r, "Shipping Utgst Tax")
        IN /\ Len(Named(v, "IGST @ 18%")) = 0
           /\ IF HasUtgst(r)
                THEN /\ EmittedIffNonZero(v, "UTGST @ 9%", u + promo)
                     /\ EmittedIffNonZero(v, "CGST @ 9%", c)
                     /\ EmittedIffNonZero(v, "SGST @ 9%", s)
                ELSE /\ EmittedIffNonZero(v, "CGST @ 9%", c + halfpromo)
                     /\ EmittedIffNonZero(v, "SGST @ 9%", s + halfpromo)
                     /\ EmittedIffNonZero(v, "UTGST @ 9%", u)

\* C7 witness: an intrastate row where only the shipping UTGST is present and
\* the promo tax went to the UTGST entry.
C7_Witness ==
    /\ pc = "done"
    /\ \E i \in RowMessages :
         /\ ~Interstate(rows[i])
         /\ Cell(rows[i], "Utgst Tax") = 0
         /\ Cell(rows[i], "Shipping Utgst Tax") # 0
         /\ Cell(rows[i], "Shipping Promo Tax") # 0
         /\ Len(Named(reqdata[i].VOUCHER, "UTGST @ 9%")) = 1

\* C7 second case: an intrastate row with no UTGST whose CGST cell is
\* cancelled by half the promo tax, leaving an SGST entry alone.
C7_WitnessSplit ==
    /\ pc = "done"
    /\ \E i \in RowMessages :
         /\ ~Interstate(rows[i])
         /\ ~HasUtgst(rows[i])
         /\ Cell(rows[i], "Cgst Tax") # 0
         /\ Len(Named(reqdata[i].VOUCHER, "CGST @ 9%")) = 0
         /\ Len(Named(reqdata[i].VOUCHER, "SGST @ 9%")) = 1

IsRefund(row) == lower(strip(Get(row, "Transaction Type", ""))) = "refund"

\* the party entry: -invoiceAmount, or |invoiceAmount| for a refund, with
\* one bill allocation keyed by the order id carrying the same amount
PartyEntryAmount(i) ==
    LET p == reqdata[i].VOUCHER.LEDGERENTRIES[1]
        inv == Cell(rows[i], "Invoice Amount")
    IN /\ p.LEDGERNAME = "Amazon.in"
       /\ p.ISPARTYLEDGER = "Yes"
       /\ Len(Named(reqdata[i].VOUCHER, "Amazon.in")) = 1
       /\ p.AMOUNT = IF IsRefund(rows[i]) THEN Abs(inv) ELSE -inv
       /\ p.BILLALLOCATIONS = <<[NAME |-> strip(rows[i]["Order Id"]), AMOUNT |-> p.AMOUNT]>>

\* C8 as stated: the party entry has the amount above, and for a refund with
\* a non-zero invoice amount it is positive with deemed-positive flag "Yes".
C8_Original_RefundFlagYes ==
    \A i \in RowMessages :
      /\ PartyEntryAmount(i)
      /\ IsRefund(rows[i]) /\ Cell(rows[i], "Invoice Amount") # 0 =>
           /\ reqdata[i].VOUCHER.LEDGERENTRIES[1].AMOUNT > 0
           /\ reqdata[i].VOUCHER.LEDGERENTRIES[1].ISDEEMEDPOSITIVE = "Yes"

\* C8 amended: the party entry has amount -invoiceAmount, or +|invoiceAmount|
\* for a refund (case-insensitive), with one bill allocation keyed by the
\* order id carrying the same amount; for a refund with a non-zero invoice
\* amount it is positive and its deemed-positive flag is "No".
C8_PartyEntryRefundFlagNo ==
    \A i \in RowMessages :
      /\ PartyEntryAmount(i)
      /\ IsRefund(rows[i]) /\ Cell(rows[i], "Invoice Amount") # 0 =>
           /\ reqdata[i].VOUCHER.LEDGERENTRIES[1].AMOUNT > 0
           /\ reqdata[i].VOUCHER.LEDGERENTRIES[1].ISDEEMEDPOSITIVE = "No"

\* C8 witness: a refund, spelled in upper case, of invoice amount -1000.00
\* whose party entry is +1000.00.
C8_Witness ==
    /\ pc = "done"
    /\ \E i \in RowMessages :
         /\ rows[i]["Transaction Type"] = " REFUND "
         /\ rows[i]["Invoice Amount"] = "-1000.00"
         /\ reqdata[i].VOUCHER.LEDGERENTRIES[1].AMOUNT = 200000

DeemedByAmount(e) == e.ISDEEMEDPOSITIVE = (IF e.AMOUNT < 0 THEN "Yes" ELSE "No")

\* every ledger entry of a voucher: its ledger lines and, for an invoice
\* voucher, the accounting allocation of its inventory line
EntriesOf(v) ==
    {v.LEDGERENTRIES[j] : j \in 1..Len(v.LEDGERENTRIES)}
    \cup {v.ALLINVENTORYENTRIES[j].ACCOUNTINGALLOCATIONS[1] : j \in 1..Len(v.ALLINVENTORYENTRIES)}

\* C9 as stated: every ledger entry of every voucher has its deemed-positive
\* flag "Yes" exactly when its amount is < 0.
C9_Original_EveryEntry ==
    \A i \in 1..Len(reqdata) : \A e \in EntriesOf(reqdata[i].VOUCHER) : DeemedByAmount(e)

\* C9 amended: every ledger entry of every voucher other than the
\* shipping-promo entry has its deemed-positive flag "Yes" exactly when its
\* amount is < 0 and "No" otherwise; the shipping-promo entry's flag is
\* always "No".
C9_EveryEntryButPromo ==
    \A i \in 1..Len(reqdata) : \A e \in EntriesOf(reqdata[i].VOUCHER) :
      IF e.LEDGERNAME = "ship-promotion-discount"
        THEN e.ISDEEMEDPOSITIVE = "No"
        ELSE DeemedByAmount(e)

\* C9 witness: a voucher with a negative shipping-promo entry flagged "No"
\* beside a negative GST entry flagged "Yes".
C9_Witness ==
    \E i \in RowMessages :
      /\ \E e \in EntriesOf(reqdata[i].VOUCHER) :
           e.LEDGERNAME = "ship-promotion-discount" /\ e.AMOUNT < 0 /\ e.ISDEEMEDPOSITIVE = "No"
      /\ \E e \in EntriesOf(reqdata[i].VOUCHER) :
           e.LEDGERNAME \in LocalGstNames /\ e.AMOUNT < 0 /\ e.ISDEEMEDPOSITIVE = "Yes"

\* C10: convert either returns with the output document written, or raises
\* with no output document left behind, part or whole.
C10_AllOrNothing ==
    /\ pc = "done" => xml.state = "complete"
    /\ pc = "raised" => xml.state = "absent"

(***************************************************************************)
(* C11  Absent columns.                                                    *)
(***************************************************************************)
\* the columns whose absence ends the conversion, as the amended claim lists them
C11_FatalColumns ==
    {"Transaction Type", "Invoice Number", "Order Id", "Invoice Date", "Ship To State",
     "Ship To City", "Ship To Postal Code", "Ship To Country"}

\* convert has not come to writing the document and no file exists
AbortedBeforeOutput ==
    /\ pc \in {"open", "rows", "raised"}
    /\ xml.state = "absent"
    /\ logfile.state = "absent"

\* C11 as stated: for every batch, of any number of rows including zero, in
\* which at least one column of the required set is absent, convert aborts
\* and writes no output document.
C11_Original_AnyColumnAbsentAborts == (header # Columns) => AbortedBeforeOutput

\* C11 amended: when the batch has at least one row and one of the columns
\* read by subscript is absent, convert aborts in the first row, before any
\* voucher is built and any file written; when the batch has no row, or only
\* columns read with a default are absent, no row of the loop raises.
C11_SubscriptedColumnAbsentAborts ==
    /\ (Len(rows) > 0 /\ ~(C11_FatalColumns \subseteq header)) =>
         /\ AbortedBeforeOutput
         /\ idx <= 1
         /\ reqdata = <<>>
    /\ (header # Columns /\ pc = "raised"
          /\ (Len(rows) = 0 \/ C11_FatalColumns \subseteq header)) =>
         (idx = 0 \/ idx > Len(rows))

\* a batch of two rows without the country column has raised in its first row
C11_Witness ==
    /\ pc = "raised"
    /\ idx = 1
    /\ Len(rows) = 2
    /\ "Ship To Country" \notin header

\* a batch of rows without the invoice amount column is converted to the end
C11_WitnessDefaulted ==
    /\ pc = "done"
    /\ Len(rows) = 2
    /\ "Invoice Amount" \notin header
    /\ Len(xml.messages) >= 2

(***************************************************************************)
(* C12  The normalizer d over every text of a cell.                        *)
(*                                                                         *)
(* Decimal(text) accepts, besides the numbers, the literals of its special *)
(* values; a Decimal is here [kind, units]: a finite value with its units  *)
(* of 0.005, NaN, or an infinity with its sign in units.                   *)
(***************************************************************************)
DecFinite(n) == [kind |-> "finite", units |-> n]
DecNaN == [kind |-> "NaN", units |-> 0]
DecInfinity(sign) == [kind |-> "Infinity", units |-> sign]

\* The texts Decimal(text) accepts as special values
SpecialLiterals ==
    [s \in {"NaN", "Infinity", "-Infinity"} |->
        CASE s = "NaN" -> DecNaN
          [] s = "Infinity" -> DecInfinity(1)
          [] OTHER -> DecInfinity(-1)]

\* d, its result with its kind: zero for an empty text and for a text
\* Decimal rejects, the value of the literal otherwise
dDecimal(val) ==
    IF strip(val) # ""
      THEN (IF strip(val) \in DOMAIN DecimalLiterals
              THEN DecFinite(DecimalLiterals[strip(val)])
              ELSE IF strip(val) \in DOMAIN SpecialLiterals
                     THEN SpecialLiterals[strip(val)]
                     ELSE DecFinite(0))
      ELSE DecFinite(0)

\* -x and abs(x): the sign of a number or an infinity, NaN unchanged
DecNeg(v) == IF v.kind = "NaN" THEN v ELSE [v EXCEPT !.units = -v.units]
DecAbs(v) == IF v.kind = "NaN" THEN v ELSE [v EXCEPT !.units = Abs(v.units)]

\* x + y raises InvalidOperation on the two infinities of opposite signs
DecAddRaises(a, b) == a.kind = "Infinity" /\ b.kind = "Infinity" /\ a.units # b.units
DecAdd(a, b) ==
    IF a.kind = "NaN" \/ b.kind = "NaN" THEN DecNaN
    ELSE IF a.kind = "Infinity" THEN a
    ELSE IF b.kind = "Infinity" THEN b
    ELSE DecFinite(a.units + b.units)

\* x / Decimal("2")
DecHalf(v) == IF v.kind = "finite" THEN DecFinite(v.units \div 2) ELSE v

\* x < 0 and x > 0 raise InvalidOperation on NaN; x != 0 never raises
DecOrderRaises(v) == v.kind = "NaN"
DecNeZero(v) == v.kind # "finite" \/ v.units # 0

\* fmt_amount raises where it quantizes an infinity: in two-decimal mode
fmt_amount_raises(v, force_two) == force_two /\ v.kind = "Infinity"

\* the flag tags of an entry, then its amount tags
EntryRaises(v, force_two) == DecOrderRaises(v) \/ fmt_amount_raises(v, force_two)

Amount(row, col) == dDecimal(Get(row, col, "0"))

\* the GST entries of a row: a sum, a test against zero, an entry
GstRaises(row) ==
    LET tax(c) == Amount(row, c)
        promo_tax == tax("Shipping Promo Tax")
        has_utgst == DecNeZero(tax("Utgst Tax")) \/ DecNeZero(tax("Shipping Utgst Tax"))
        Sum2(a, b) == [raises |-> DecAddRaises(a, b), val |-> DecAdd(a, b)]
        Sum3(a, b, c) == [raises |-> DecAddRaises(a, b) \/ DecAddRaises(DecAdd(a, b), c),
                          val |-> DecAdd(DecAdd(a, b), c)]
        total_igst == Sum3(tax("Igst Tax"), tax("Shipping Igst Tax"), promo_tax)
        total_utgst == IF has_utgst
                         THEN Sum3(tax("Utgst Tax"), tax("Shipping Utgst Tax"), promo_tax)
                         ELSE Sum2(tax("Utgst Tax"), tax("Shipping Utgst Tax"))
        total_cgst == IF has_utgst
                        THEN Sum2(tax("Cgst Tax"), tax("Shipping Cgst Tax"))
                        ELSE Sum3(tax("Cgst Tax"), tax("Shipping Cgst Tax"), DecHalf(promo_tax))
        total_sgst == IF has_utgst
                        THEN Sum2(tax("Sgst Tax"), tax("Shipping Sgst Tax"))
                        ELSE Sum3(tax("Sgst Tax"), tax("Shipping Sgst Tax"), DecHalf(promo_tax))
        Entry(t) == t.raises \/ (DecNeZero(t.val) /\ EntryRaises(t.val, FALSE))
    IN IF is_interstate(row)
         THEN Entry(total_igst)
         ELSE Entry(total_cgst) \/ Entry(total_sgst) \/ Entry(total_utgst)

\* build_voucher raises on the amounts of the row
build_voucher_raises(row) ==
    LET invoice == Amount(row, "Invoice Amount")
        party == IF is_refund(row) THEN DecAbs(invoice) ELSE DecNeg(invoice)
        ship == Amount(row, "Shipping Amount Basis")
        promo == Amount(row, "Shipping Promo Discount Basis")
        principal == Amount(row, "Principal Amount Basis")
    IN \/ EntryRaises(party, FALSE)
       \/ (DecNeZero(ship) /\ EntryRaises(ship, TRUE))
       \/ (DecNeZero(promo) /\ fmt_amount_raises(promo, TRUE))
       \/ GstRaises(row)
       \/ EntryRaises(principal, TRUE)

\* build_tcs_voucher raises on the TCS amounts of a batch of one row
build_tcs_voucher_raises(row) ==
    LET total(c) == DecAdd(DecFinite(0), Amount(row, c))
        cg == total("Tcs Cgst Amount")
        sg == total("Tcs Sgst Amount")
        ug == total("Tcs Utgst Amount")
        ig == total("Tcs Igst Amount")
        net_raises == \/ DecAddRaises(cg, sg)
                      \/ DecAddRaises(DecAdd(cg, sg), ug)
                      \/ DecAddRaises(DecAdd(DecAdd(cg, sg), ug), ig)
        net == DecAdd(DecAdd(DecAdd(cg, sg), ug), ig)
    IN \/ net_raises
       \/ /\ \E t \in {cg, sg, ug, ig} : DecNeZero(t)
          /\ \/ \E t \in {cg, sg, ug, ig} : EntryRaises(DecNeg(t), FALSE)
             \/ (DecNeZero(net) /\ EntryRaises(net, FALSE))

\* the texts of a monetary cell
CellTexts ==
    {"", "   ", "abc", "12,50", "0", "0.00", "0.01", " 0.01 ", "-0.02", "1000.00",
     "NaN", "Infinity", "-Infinity"}

\* the rows the cell is put in: a sale and a refund, within and across states
CellRows ==
    {[BaseRow EXCEPT !["Transaction Type"] = t, !["Ship To State"] = s] :
       t \in {"Shipment", "Refund"}, s \in {"KARNATAKA", "DELHI"}}

\* a monetary or TCS cell with a text, or absent from the row
CellArgs ==
    {[col |-> c, row |-> [r EXCEPT ![c] = t]] :
       c \in MoneyColumns \cup TcsColumns, t \in CellTexts, r \in CellRows}
    \cup {[col |-> c, row |-> Drop(r, c)] : c \in MoneyColumns \cup TcsColumns, r \in CellRows}

InitD ==
    /\ arg \in CellArgs
    /\ res = <<>>
    /\ pc = "d"
    /\ header = DOMAIN arg.row
    /\ rows = <<arg.row>>
    /\ idx = 0
    /\ reqdata = <<>>
    /\ debug_rows = <<>>
    /\ xml = [state |-> "absent", messages |-> <<>>]
    /\ logfile = [state |-> "absent", rows |-> <<>>]

\* d(row.get(col, 0))
Normalize ==
    /\ pc = "d"
    /\ res' = [value |-> Amount(arg.row, arg.col)]
    /\ pc' = "normalized"
    /\ UNCHANGED <<header, arg, rows, idx, reqdata, debug_rows, xml, logfile>>

\* build_voucher on the row of the cell
VoucherOfCell ==
    /\ pc = "normalized"
    /\ pc' = IF build_voucher_raises(arg.row) THEN "InvalidOperation" ELSE "voucher"
    /\ UNCHANGED <<header, arg, res, rows, idx, reqdata, debug_rows, xml, logfile>>

\* build_tcs_voucher on the batch of that row
TcsOfCell ==
    /\ pc = "voucher"
    /\ pc' = IF build_tcs_voucher_raises(arg.row) THEN "InvalidOperation" ELSE "tcs"
    /\ UNCHANGED <<header, arg, res, rows, idx, reqdata, debug_rows, xml, logfile>>

NextD ==
    \/ Normalize
    \/ VoucherOfCell
    \/ TcsOfCell

SpecD == InitD /\ [][NextD]_vars

\* the texts of CellTexts that are finite decimal numbers, with their units
FiniteNumbers ==
    [s \in {"0", "0.00", "0.01", " 0.01 ", "-0.02", "1000.00"} |->
        CASE s = "0.01" -> 2
          [] s = " 0.01 " -> 2
          [] s = "-0.02" -> -4
          [] s = "1000.00" -> 200000
          [] OTHER -> 0]

\* C12: for every text of a monetary cell that is not a finite decimal number
\* (empty, blank, absent, not numeric, any other text) d returns exactly zero
\* and does not raise, every normalized amount is a finite decimal (the value
\* of the text when it is a number), and neither build_voucher nor
\* build_tcs_voucher fails on the content of a monetary or TCS cell.
C12_NormalizedFiniteNeverFails ==
    /\ pc \in {"normalized", "voucher", "tcs", "InvalidOperation"} =>
         /\ res.value.kind = "finite"
         /\ res.value.units =
              (IF Get(arg.row, arg.col, "0") \in DOMAIN FiniteNumbers
                 THEN FiniteNumbers[Get(arg.row, arg.col, "0")]
                 ELSE 0)
    /\ pc # "InvalidOperation"

\* C12, the half that holds: a cell that is empty, blank, absent or not a
\* literal of Decimal normalizes to zero, and a number to its value
C12_RejectedTextIsZero ==
    (pc \in {"normalized", "voucher", "tcs", "InvalidOperation"}
       /\ Get(arg.row, arg.col, "0") \notin DOMAIN SpecialLiterals) =>
         /\ res.value.kind = "finite"
         /\ res.value.units =
              (IF Get(arg.row, arg.col, "0") \in DOMAIN FiniteNumbers
                 THEN FiniteNumbers[Get(arg.row, arg.col, "0")]
                 ELSE 0)
         /\ pc # "InvalidOperation"

\* the invoice amount NaN has made build_voucher raise
C12_NaNRaises ==
    /\ pc = "InvalidOperation"
    /\ arg.col = "Invoice Amount"
    /\ res.value = DecNaN
\* an infinite TCS amount has gone through both builders
C12_InfinityPasses ==
    /\ pc = "tcs"
    /\ arg.col = "Tcs Igst Amount"
    /\ res.value = DecInfinity(1)

(***************************************************************************)
(* C13  The dates of a voucher.                                            *)
(***************************************************************************)
\* the date a cell text holds, as YYYYMMDD; "" for a text that holds no date
C13_DateHeld(text) ==
    CASE text \in {"05-01-2024 10:30", "05-01-2024"} -> "20240105"
      [] text \in {"06-01-2024 9am", "06-01-2024"} -> "20240106"
      [] text = "07-01-2024 09:15" -> "20240107"
      [] OTHER -> ""

\* C13: the voucher of a refund row is dated with the credit-note date, or
\* with the invoice date whenever the credit-note cell holds no date, and its
\* reference date is the invoice date; the voucher of every other row is
\* dated with the invoice date and its reference date is empty.
C13_VoucherDates ==
    \A i \in RowMessages :
      LET v == reqdata[i].VOUCHER
          invoice == C13_DateHeld(Get(rows[i], "Invoice Date", ""))
          credit == C13_DateHeld(Get(rows[i], "Credit Note Date", ""))
      IN IF IsRefund(rows[i])
           THEN /\ v.DATE = (IF credit # "" THEN credit ELSE invoice)
                /\ v.REFERENCEDATE = invoice
           ELSE /\ v.DATE = invoice
                /\ v.REFERENCEDATE = ""

\* C13 without the refund rows whose credit-note cell is blank but not empty
C13_VoucherDatesUnlessBlank ==
    \A i \in RowMessages :
      LET v == reqdata[i].VOUCHER
          invoice == C13_DateHeld(Get(rows[i], "Invoice Date", ""))
          credit == C13_DateHeld(Get(rows[i], "Credit Note Date", ""))
      IN IF IsRefund(rows[i])
           THEN /\ Get(rows[i], "Credit Note Date", "") # "   " =>
                     v.DATE = (IF credit # "" THEN credit ELSE invoice)
                /\ v.REFERENCEDATE = invoice
           ELSE /\ v.DATE = invoice
                /\ v.REFERENCEDATE = ""

\* a refund voucher without a date: the credit-note cell is blank
C13_BlankCreditDate ==
    \E i \in RowMessages :
      /\ IsRefund(rows[i])
      /\ Get(rows[i], "Credit Note Date", "") = "   "
      /\ Get(rows[i], "Invoice Date", "") = "05-01-2024 10:30"
      /\ reqdata[i].VOUCHER.DATE = ""
      /\ reqdata[i].VOUCHER.REFERENCEDATE = "20240105"

(***************************************************************************)
(* C14  fmt_amount over a bounded set of Decimals.                         *)
(***************************************************************************)
MaxCoeff == 120

\* the coefficients: every small one, and those of 50.00, 1016.10, 9.995
Coefficients == 0..MaxCoeff \cup {995, 5000, 9995, 101610}

\* the exponents: integers, tenths, cents, half cents, and one below 10^-6
Exponents == {1, 0, -1, -2, -3, -7}

Decimals == {[sign |-> s, coeff |-> c, exp |-> e] : s \in {0, 1}, c \in Coefficients, e \in Exponents}

InitFmt ==
    /\ arg \in Decimals
    /\ res = <<>>
    /\ pc = "fmt_amount"
    /\ header = {}
    /\ rows = <<>>
    /\ idx = 0
    /\ reqdata = <<>>
    /\ debug_rows = <<>>
    /\ xml = [state |-> "absent", messages |-> <<>>]
    /\ logfile = [state |-> "absent", rows |-> <<>>]

\* fmt_amount(val, force_two=True)
FmtTwoDecimal ==
    /\ pc = "fmt_amount"
    /\ res' = fmt_amount(arg, TRUE)
    /\ pc' = "two-decimal"
    /\ UNCHANGED <<header, arg, rows, idx, reqdata, debug_rows, xml, logfile>>

\* fmt_amount(val)
FmtCompact ==
    /\ pc = "fmt_amount"
    /\ res' = fmt_amount(arg, FALSE)
    /\ pc' = "compact"
    /\ UNCHANGED <<header, arg, rows, idx, reqdata, debug_rows, xml, logfile>>

NextFmt ==
    \/ FmtTwoDecimal
    \/ FmtCompact

SpecFmt == InitFmt /\ [][NextFmt]_vars

DigitChars == {"0", "1", "2", "3", "4", "5", "6", "7", "8", "9"}

\* the text ends with a point and two digits, and has no other point
C14_TwoFractionDigits(text) ==
    /\ Len(text) >= 4
    /\ text[Len(text) - 2] = "."
    /\ text[Len(text) - 1] \in DigitChars
    /\ text[Len(text)] \in DigitChars
    /\ \A i \in 1..(Len(text) - 3) : text[i] \in DigitChars \cup {"-"}

\* the value of arg is a whole number
C14_Integral == arg.exp >= 0 \/ arg.coeff % Pow10(-arg.exp) = 0

\* the whole cents nearest to the magnitude of arg, a half going to the even
C14_Cents ==
    IF arg.exp >= -2 THEN arg.coeff * Pow10(arg.exp + 2)
    ELSE LET scale == Pow10(-2 - arg.exp)
             Dist(c) == Abs(arg.coeff - c * scale)
         IN CHOOSE c \in (arg.coeff \div scale)..(arg.coeff \div scale + 1) :
              /\ 2 * Dist(c) <= scale
              /\ (2 * Dist(c) = scale => c % 2 = 0)

\* the cents written with two fractional digits, the trailing zeros and a
\* trailing point taken off
C14_CentsStripped ==
    (IF arg.sign = 1 THEN <<"-">> ELSE <<>>)
    \o Digits(C14_Cents \div 100)
    \o (IF C14_Cents % 100 = 0 THEN <<>>
        ELSE IF C14_Cents % 10 = 0 THEN <<".", ToString((C14_Cents \div 10) % 10)>>
        ELSE <<".", ToString((C14_Cents \div 10) % 10), ToString(C14_Cents % 10)>>)

\* the rendering the claim gives for the compact mode
C14_CompactExpected ==
    IF arg.coeff = 0 THEN <<"0">>
    ELSE IF C14_Integral
      THEN (IF arg.sign = 1 THEN <<"-">> ELSE <<>>)
           \o Digits(IF arg.exp >= 0 THEN arg.coeff * Pow10(arg.exp)
                                     ELSE arg.coeff \div Pow10(-arg.exp))
           \o <<".", "0">>
      ELSE C14_CentsStripped

\* C14: in two-decimal mode the text has exactly two digits after the point;
\* in compact mode zero renders as "0", an integral value with exactly one
\* fractional digit (50 -> "50.0"), and a non-integral value quantized to two
\* fractional digits with the trailing zeros stripped (1016.10 -> "1016.1").
C14_FmtAmountRendering ==
    /\ pc = "two-decimal" => C14_TwoFractionDigits(res)
    /\ pc = "compact" => res = C14_CompactExpected

\* C14 on the values whose own text has a point or that are whole numbers
C14_RenderingOfPlainValues ==
    /\ pc = "two-decimal" => C14_TwoFractionDigits(res)
    /\ (pc = "compact" /\ ~(arg.exp = -7 /\ arg.coeff \in 1..9)) => res = C14_CompactExpected

\* 0.0000001 in compact mode comes out in scientific notation
C14_ScientificText ==
    /\ pc = "compact"
    /\ arg = [sign |-> 0, coeff |-> 1, exp |-> -7]
    /\ res = <<"1", "E", "-", "7">>

\* the examples of the claim
C14_Examples ==
    /\ pc = "compact"
    /\ \/ (arg = [sign |-> 0, coeff |-> 50, exp |-> 0] /\ res = <<"5", "0", ".", "0">>)
       \/ (arg = [sign |-> 0, coeff |-> 101610, exp |-> -2]
             /\ res = <<"1", "0", "1", "6", ".", "1">>)

(***************************************************************************)
(* C15  The rendered amounts of the GST entries.                           *)
(***************************************************************************)
GstNames == {"IGST @ 18%", "CGST @ 9%", "SGST @ 9%", "UTGST @ 9%"}

\* the GST entries of the voucher at position i
GstEntries(i) ==
    {e \in EntriesOf(reqdata[i].VOUCHER) : e.LEDGERNAME \in GstNames}

\* the text is a zero: nothing in it but zeros, a sign and a point
C15_RendersZero(text) == \A k \in 1..Len(text) : text[k] \in {"0", "-", "."}

\* C15: every GST entry build_voucher emits (IGST, CGST, SGST, UTGST) has a
\* rendered amount that is not zero and whose sign is the one the entry's
\* deemed-positive flag tells: "Yes" with a minus sign, "No" without; no GST
\* entry is emitted with the text "0", the halved shipping-promo tax included.
C15_GstAmountRenderedNonZero ==
    \A i \in RowMessages : \A e \in GstEntries(i) :
      /\ ~C15_RendersZero(e.VATEXPAMOUNT)
      /\ (e.ISDEEMEDPOSITIVE = "Yes") <=> (e.VATEXPAMOUNT[1] = "-")

\* the sign of the text agrees with the flag on every GST entry, zero or not
C15_GstSignAgrees ==
    \A i \in RowMessages : \A e \in GstEntries(i) :
      (e.ISDEEMEDPOSITIVE = "Yes") <=> (e.VATEXPAMOUNT[1] = "-")

\* a shipping-promo tax of 0.01 halved: CGST and SGST entries of amount "0"
C15_HalvedPromoTaxRendersZero ==
    \E i \in RowMessages :
      /\ Cell(rows[i], "Shipping Promo Tax") = 2
      /\ \E e \in GstEntries(i) : e.LEDGERNAME = "CGST @ 9%" /\ e.VATEXPAMOUNT = <<"0">>
      /\ \E e \in GstEntries(i) : e.LEDGERNAME = "SGST @ 9%" /\ e.VATEXPAMOUNT = <<"0">>

\* a shipping-promo tax of -0.01 halved: a CGST entry of amount "-0"
C15_HalvedPromoTaxRendersMinusZero ==
    \E i \in RowMessages : \E e \in GstEntries(i) :
      /\ e.LEDGERNAME = "CGST @ 9%"
      /\ e.VATEXPAMOUNT = <<"-", "0">>
      /\ e.ISDEEMEDPOSITIVE = "Yes"
====
